---- MODULE Spec2Model ----
(***************************************************************************)
(* The alert evaluation and acknowledgment engine of the inventory         *)
(* application (src/pages/alerts.py) over the inventory and alert_settings *)
(* tables (src/database.py).                                               *)
(*                                                                         *)
(* Modelling conventions                                                   *)
(*  - A Python/SQL string is a sequence of tokens: a token is a word with  *)
(*    no separator in it, a decimal digit, "_" or " ".  Formatting,        *)
(*    splitting and isdigit() are computed on these sequences.             *)
(*  - A nullable column is a set: {} is NULL, {v} is the value v.          *)
(*  - A date is a day number; day 0 is the day the run starts.             *)
(*  - The inventory table is a sequence of rows: id is a SERIAL primary    *)
(*    key and no statement of the program deletes an inventory row, so     *)
(*    row i has id i.  Only the columns the alert engine reads or writes   *)
(*    are kept (drug_item_name, location, expiration_date,                 *)
(*    acknowledged_alerts).  The queries of alerts.py name the column      *)
(*    acknowledged_alerts, so the table is taken to have it.               *)
(*    In the same way the alert_settings table, which save_alert_settings  *)
(*    inserts into, is taken to exist.                                     *)
(*  - The rows of one query are listed by ascending id; SQL leaves the     *)
(*    order open and nothing below depends on it.                          *)
(***************************************************************************)
EXTENDS Integers, Sequences, FiniteSets, TLC

VARIABLES
    today,           \* CURRENT_DATE / datetime.now().date()
    clock,           \* datetime.now() as a logical clock: the time the next
                     \* UPDATE of acknowledge_alerts stamps, later than every
                     \* time stamped before
    inventory,       \* the inventory table
    alert_settings,  \* the alert_settings table (rows in insertion order)
    last,            \* the last completed call and what it returned
    acknowledged,    \* history.  SpecDays: the alert ids acknowledge_alerts
                     \* returned True for, each with the day of the call.
                     \* SpecBatch: the list and the outcome of the last
                     \* acknowledge_alerts call.  SpecSettings: the settings
                     \* of the last save_alert_settings call that returned
                     \* True.  SpecConcurrent: the inventory table when the
                     \* two calls in flight began.  Elsewhere: empty.
    outbox,          \* the calls of send_email made by the last
                     \* send_alert_summary_email, in order
    calls            \* the acknowledge_alerts calls in flight on their own
                     \* connections (SpecConcurrent): position in the list,
                     \* row versions written and not committed

vars == <<today, clock, inventory, alert_settings, last, acknowledged, outbox, calls>>

(***************************************************************************)
(* Bounds of the model.                                                    *)
(***************************************************************************)
MaxRecords == 2        \* rows of the inventory table
MaxDay == 1            \* midnights that pass
MaxClock == 2          \* acknowledge_alerts calls that write
MaxSettingsRows == 1   \* rows of the alert_settings table
MaxStock == 3          \* rows of the inventory table in SpecStock
MaxBatch == 2          \* ids in one acknowledge_alerts call in SpecBatch
MaxVersions == 2       \* rows of the alert_settings table in SpecSettings

(***************************************************************************)
(* Strings.                                                                *)
(***************************************************************************)
DigitChars == <<"0", "1", "2", "3", "4", "5", "6", "7", "8", "9">>

RECURSIVE FormatInt(_)
\* str(n) of a non-negative integer, as f"{n}" formats it
FormatInt(n) ==
    IF n < 10 THEN <<DigitChars[n + 1]>>
    ELSE FormatInt(n \div 10) \o <<DigitChars[(n % 10) + 1]>>

\* str.isdigit(): non-empty and every character a digit
IsDigit(s) ==
    /\ Len(s) > 0
    /\ \A i \in 1..Len(s) : \E d \in 1..10 : DigitChars[d] = s[i]

DigitValue(c) == (CHOOSE d \in 1..10 : DigitChars[d] = c) - 1

RECURSIVE ParseInt(_)
\* int(s) of a string of digits
ParseInt(s) ==
    IF Len(s) = 0 THEN 0
    ELSE 10 * ParseInt(SubSeq(s, 1, Len(s) - 1)) + DigitValue(s[Len(s)])

\* '_' in s
HasUnderscore(s) == \E i \in 1..Len(s) : s[i] = "_"

\* s.split('_', 1): the text before the first "_" and the text after it
SplitFirst(s) ==
    LET p == CHOOSE i \in 1..Len(s) :
                 /\ s[i] = "_"
                 /\ \A j \in 1..(i - 1) : s[j] # "_"
    IN  <<SubSeq(s, 1, p - 1), SubSeq(s, p + 1, Len(s))>>

\* s.replace(' ', '_')
ReplaceSpaces(s) == [i \in 1..Len(s) |-> IF s[i] = " " THEN "_" ELSE s[i]]

(***************************************************************************)
(* Nullable values and JSON objects.                                       *)
(***************************************************************************)
NULL == {}
Some(v) == {v}
TheValue(x) == CHOOSE v \in x : TRUE

EmptyObject == [k \in {} |-> 0]

\* COALESCE(x, '{}'::jsonb)
Coalesce(x) == IF x = NULL THEN EmptyObject ELSE TheValue(x)

\* (mutant) an assignment of the right operand in place of a merge
JsonbConcat_Replaces(a, b) == b

\* (mutant) a merge that keeps the value a key already has
JsonbConcat_KeepsOldValue(a, b) ==
    [k \in (DOMAIN a) \cup (DOMAIN b) |-> IF k \in DOMAIN a THEN a[k] ELSE b[k]]

\* jsonb || jsonb: the union of the keys, the right operand's value on a clash
JsonbConcat(a, b) ==
    [k \in (DOMAIN a) \cup (DOMAIN b) |-> IF k \in DOMAIN b THEN b[k] ELSE a[k]]

\* acknowledged_alerts IS NULL OR NOT (acknowledged_alerts ? key)
NotAcknowledged(row, key) ==
    \/ row.acknowledged_alerts = NULL
    \/ key \notin DOMAIN TheValue(row.acknowledged_alerts)

\* the key set of a row's acknowledged_alerts map
AckKeys(row) == DOMAIN Coalesce(row.acknowledged_alerts)

(***************************************************************************)
(* Settings.                                                               *)
(***************************************************************************)
get_default_alert_settings ==
    [ expiry_warning_days        |-> 30,
      expiry_critical_days       |-> 7,
      low_stock_threshold        |-> 5,
      enable_stock_alerts        |-> TRUE,
      enable_email_notifications |-> FALSE,
      notification_recipients    |-> <<>>,
      notification_frequency     |-> "Daily" ]

\* (mutant) a query that orders by updated_at ascending
get_alert_settings_Oldest(rows, conn) ==
    IF ~conn THEN get_default_alert_settings
    ELSE IF rows = <<>> THEN get_default_alert_settings
    ELSE rows[1].settings

\* The latest row by updated_at, or the defaults when the table is empty or
\* the store cannot be reached.
get_alert_settings(rows, conn) ==
    IF ~conn THEN get_default_alert_settings
    ELSE IF rows = <<>> THEN get_default_alert_settings
    ELSE LET i == CHOOSE i \in 1..Len(rows) :
                      \A j \in 1..Len(rows) : rows[j].updated_at <= rows[i].updated_at
         IN  rows[i].settings

(***************************************************************************)
(* Alert evaluation.                                                       *)
(***************************************************************************)
RECURSIVE SortedIds(_)
\* the ids of a set of rows, ascending
SortedIds(S) ==
    IF S = {} THEN <<>>
    ELSE LET m == CHOOSE x \in S : \A y \in S : x <= y
         IN  <<m>> \o SortedIds(S \ {m})

RECURSIVE SetToSeq(_)
\* the rows of a GROUP BY query, one after the other
SetToSeq(S) ==
    IF S = {} THEN <<>>
    ELSE LET m == CHOOSE x \in S : TRUE
         IN  <<m>> \o SetToSeq(S \ {m})

\* The select list of the three expiry queries, and the column types of the
\* inventory table.
SelectColumns ==
    <<"id", "patient_name", "drug_item_name", "expiration_date",
      "inventory_number", "location">>

ColumnType ==
    [ id               |-> "integer",
      patient_name     |-> "varchar",
      drug_item_name   |-> "varchar",
      expiration_date  |-> "date",
      inventory_number |-> "varchar",
      location         |-> "varchar" ]

\* the SQL type of Python's item[i] (0-based) in a fetched row
ItemType(i) == ColumnType[SelectColumns[i + 1]]

\* The index the loop over expired_items subtracts from today's date.
ExpiredDateIndex == 2

\* date - x raises TypeError unless x is a date
DateMinusRaises(type) == type # "date"

\* Row sets of the three expiry queries (the WHERE clauses); a comparison
\* with a NULL expiration_date is not true, so the row is left out.
ExpiredItems(inv, now) ==
    { id \in DOMAIN inv :
        /\ \E d \in inv[id].expiration_date : d < now
        /\ NotAcknowledged(inv[id], <<"expired">>) }

CriticalExpiry(inv, now, critical_date) ==
    { id \in DOMAIN inv :
        /\ \E d \in inv[id].expiration_date : d <= critical_date /\ d >= now
        /\ NotAcknowledged(inv[id], <<"expiring", "_", "critical">>) }

\* (mutant) a warning query without the lower end of its window
WarningExpiry_NoLowerBound(inv, now, warning_date, critical_date) ==
    { id \in DOMAIN inv :
        /\ \E d \in inv[id].expiration_date : d <= warning_date /\ d >= now
        /\ NotAcknowledged(inv[id], <<"expiring", "_", "warning">>) }

WarningExpiry(inv, now, warning_date, critical_date) ==
    { id \in DOMAIN inv :
        /\ \E d \in inv[id].expiration_date : d <= warning_date /\ d > critical_date
        /\ NotAcknowledged(inv[id], <<"expiring", "_", "warning">>) }

\* A fetched row of the expiry queries, in the order of the select list
\* (item[0] of the code is Item(item, 0)).  The patient_name and
\* inventory_number columns are not modelled; a fixed text stands for them.
OtherColumn == <<"-">>

FetchedRow(inv, id) ==
    <<id, OtherColumn, inv[id].drug_item_name, TheValue(inv[id].expiration_date),
      OtherColumn, inv[id].location>>

Item(item, i) == item[i + 1]

\* the dict appended for an expired row (reached only if the subtraction
\* of item[ExpiredDateIndex] does not raise)
ExpiredAlert(item, now) ==
    LET days_expired == now - Item(item, ExpiredDateIndex)
    IN  [ id                |-> <<"expired", "_">> \o FormatInt(Item(item, 0)),
          record_id         |-> Some(Item(item, 0)),
          alert_type        |-> "Expired",
          severity          |-> "Critical",
          item_name         |-> Item(item, 2),
          location          |-> Item(item, 4),
          days_until_expiry |-> 0 - days_expired ]

CriticalAlert(item, now) ==
    LET days_until_expiry == Item(item, 3) - now
    IN  [ id                |-> <<"expiring", "_", "critical", "_">> \o FormatInt(Item(item, 0)),
          record_id         |-> Some(Item(item, 0)),
          alert_type        |-> "Expiring Soon",
          severity          |-> "Critical",
          item_name         |-> Item(item, 2),
          location          |-> Item(item, 5),
          days_until_expiry |-> days_until_expiry ]

WarningAlert(item, now) ==
    LET days_until_expiry == Item(item, 3) - now
    IN  [ id                |-> <<"expiring", "_", "warning", "_">> \o FormatInt(Item(item, 0)),
          record_id         |-> Some(Item(item, 0)),
          alert_type        |-> "Expiring Soon",
          severity          |-> "Warning",
          item_name         |-> Item(item, 2),
          location          |-> Item(item, 5),
          days_until_expiry |-> days_until_expiry ]

\* check_expiry_alerts.  The loop over expired_items computes
\* today - item[ExpiredDateIndex] for its first row; when that column is not
\* a date the TypeError is caught by the function's except clause, which
\* returns [] in place of every expiry alert.
check_expiry_alerts(inv, settings, now) ==
    LET warning_days  == settings.expiry_warning_days
        critical_days == settings.expiry_critical_days
        warning_date  == now + warning_days
        critical_date == now + critical_days
        expired_items   == SortedIds(ExpiredItems(inv, now))
        critical_expiry == SortedIds(CriticalExpiry(inv, now, critical_date))
        warning_expiry  == SortedIds(WarningExpiry(inv, now, warning_date, critical_date))
    IN  IF expired_items # <<>> /\ DateMinusRaises(ItemType(ExpiredDateIndex))
        THEN <<>>
        ELSE [i \in 1..Len(expired_items) |->
                 ExpiredAlert(FetchedRow(inv, expired_items[i]), now)]
             \o [i \in 1..Len(critical_expiry) |->
                 CriticalAlert(FetchedRow(inv, critical_expiry[i]), now)]
             \o [i \in 1..Len(warning_expiry) |->
                 WarningAlert(FetchedRow(inv, warning_expiry[i]), now)]

\* (mutant) the groups counted without the WHERE clause on expiration_date
LowStockItems_CountsEveryRow(inv, now, low_stock_threshold) ==
    LET groups == { <<inv[id].drug_item_name, inv[id].location>> : id \in DOMAIN inv }
        count(g) == Cardinality({ id \in DOMAIN inv :
                        <<inv[id].drug_item_name, inv[id].location>> = g })
    IN  { <<g[1], g[2], count(g)>> : g \in { h \in groups : count(h) <= low_stock_threshold } }

\* (mutant) a count that takes a row without expiration_date as not expired
LowStockItems_CountsUndated(inv, now, low_stock_threshold) ==
    LET live == { id \in DOMAIN inv : \A d \in inv[id].expiration_date : d >= now }
        groups == { <<inv[id].drug_item_name, inv[id].location>> : id \in live }
        count(g) == Cardinality({ id \in live :
                        <<inv[id].drug_item_name, inv[id].location>> = g })
    IN  { <<g[1], g[2], count(g)>> : g \in { h \in groups : count(h) <= low_stock_threshold } }

\* (mutant) the groups of every row of the table, counting the non-expired
\* rows of each: a pair whose rows are all expired has count 0
LowStockItems_KeepsEmptyGroups(inv, now, low_stock_threshold) ==
    LET live == { id \in DOMAIN inv : \E d \in inv[id].expiration_date : d >= now }
        groups == { <<inv[id].drug_item_name, inv[id].location>> : id \in DOMAIN inv }
        count(g) == Cardinality({ id \in live :
                        <<inv[id].drug_item_name, inv[id].location>> = g })
    IN  { <<g[1], g[2], count(g)>> : g \in { h \in groups : count(h) <= low_stock_threshold } }

\* The (drug_item_name, location) groups of the non-expired rows with their
\* counts, HAVING COUNT(*) <= low_stock_threshold.
LowStockItems(inv, now, low_stock_threshold) ==
    LET live == { id \in DOMAIN inv : \E d \in inv[id].expiration_date : d >= now }
        groups == { <<inv[id].drug_item_name, inv[id].location>> : id \in live }
        count(g) == Cardinality({ id \in live :
                        <<inv[id].drug_item_name, inv[id].location>> = g })
    IN  { <<g[1], g[2], count(g)>> : g \in { h \in groups : count(h) <= low_stock_threshold } }

\* (mutant) a severity rule with Warning up to a count of 3
StockAlert_WarningUpToThree(item) ==
    LET drug_name   == item[1]
        location    == item[2]
        stock_count == item[3]
    IN  [ id          |-> ReplaceSpaces(<<"stock", "_">> \o drug_name \o <<"_">> \o location),
          record_id   |-> NULL,
          alert_type  |-> IF stock_count = 0 THEN "Out of Stock" ELSE "Low Stock",
          severity    |-> IF stock_count = 0 THEN "Critical"
                          ELSE IF stock_count <= 3 THEN "Warning" ELSE "Info",
          item_name   |-> drug_name,
          location    |-> location,
          stock_count |-> stock_count ]

\* (mutant) a stock alert id made of the class and the count
StockAlert_IdByCount(item) ==
    LET drug_name   == item[1]
        location    == item[2]
        stock_count == item[3]
    IN  [ id          |-> <<"stock", "_">> \o FormatInt(stock_count),
          record_id   |-> NULL,
          alert_type  |-> IF stock_count = 0 THEN "Out of Stock" ELSE "Low Stock",
          severity    |-> IF stock_count = 0 THEN "Critical"
                          ELSE IF stock_count <= 2 THEN "Warning" ELSE "Info",
          item_name   |-> drug_name,
          location    |-> location,
          stock_count |-> stock_count ]

StockAlert(item) ==
    LET drug_name   == item[1]
        location    == item[2]
        stock_count == item[3]
    IN  [ id          |-> ReplaceSpaces(<<"stock", "_">> \o drug_name \o <<"_">> \o location),
          record_id   |-> NULL,
          alert_type  |-> IF stock_count = 0 THEN "Out of Stock" ELSE "Low Stock",
          severity    |-> IF stock_count = 0 THEN "Critical"
                          ELSE IF stock_count <= 2 THEN "Warning" ELSE "Info",
          item_name   |-> drug_name,
          location    |-> location,
          stock_count |-> stock_count ]

check_stock_alerts(inv, settings, now) ==
    LET low_stock_items == SetToSeq(LowStockItems(inv, now, settings.low_stock_threshold))
    IN  [i \in 1..Len(low_stock_items) |-> StockAlert(low_stock_items[i])]

\* What get_current_alerts returns: [] without a connection, else the expiry
\* alerts followed by the stock alerts, under the current settings.
CurrentAlerts(inv, rows, now, conn, settings_conn) ==
    IF ~conn THEN <<>>
    ELSE LET settings == get_alert_settings(rows, settings_conn)
             expiry_alerts == check_expiry_alerts(inv, settings, now)
             stock_alerts  == check_stock_alerts(inv, settings, now)
         IN  expiry_alerts \o stock_alerts

\* the ids of a list of alerts
AlertIds(alerts) == { alerts[i].id : i \in 1..Len(alerts) }

(***************************************************************************)
(* Acknowledgment.                                                         *)
(***************************************************************************)
\* UPDATE inventory SET acknowledged_alerts =
\*     COALESCE(acknowledged_alerts, '{}'::jsonb) || {key: now} WHERE id = n
\* (mutant) the UPDATE without its WHERE clause
UpdateAcknowledged_EveryRow(inv, n, acknowledge_key, now) ==
    [ id \in DOMAIN inv |->
        [ inv[id] EXCEPT !.acknowledged_alerts =
            Some(JsonbConcat(Coalesce(@), [k \in {acknowledge_key} |-> now])) ] ]

UpdateAcknowledged(inv, n, acknowledge_key, now) ==
    [ id \in DOMAIN inv |->
        IF id = n
        THEN [ inv[id] EXCEPT !.acknowledged_alerts =
                 Some(JsonbConcat(Coalesce(@), [k \in {acknowledge_key} |-> now])) ]
        ELSE inv[id] ]

\* the ids of the list for which the loop executes the UPDATE
IsWellFormed(alert_id) ==
    /\ HasUnderscore(alert_id)
    /\ IsDigit(SplitFirst(alert_id)[2])

\* one pass of the loop body
AcknowledgeOne(inv, alert_id, now) ==
    IF HasUnderscore(alert_id)
    THEN LET alert_type == SplitFirst(alert_id)[1]
             record_id  == SplitFirst(alert_id)[2]
         IN  IF IsDigit(record_id)
             THEN UpdateAcknowledged(inv, ParseInt(record_id),
                                     alert_type \o <<"_", "acknowledged">>, now)
             ELSE inv
    ELSE inv

RECURSIVE AcknowledgeLoop_StopsAtMalformed(_, _, _)
\* (mutant) a loop that ends at the first id it cannot use
AcknowledgeLoop_StopsAtMalformed(inv, alert_ids, now) ==
    IF alert_ids = <<>> \/ ~IsWellFormed(Head(alert_ids)) THEN inv
    ELSE AcknowledgeLoop_StopsAtMalformed(AcknowledgeOne(inv, Head(alert_ids), now),
                                          Tail(alert_ids), now)

RECURSIVE AcknowledgeLoop(_, _, _)
\* for alert_id in alert_ids: ...
AcknowledgeLoop(inv, alert_ids, now) ==
    IF alert_ids = <<>> THEN inv
    ELSE AcknowledgeLoop(AcknowledgeOne(inv, Head(alert_ids), now), Tail(alert_ids), now)

(***************************************************************************)
(* Inputs.                                                                 *)
(***************************************************************************)
Drugs == { <<"DrugA">> }
Locations == { <<"LocX">> }
ExpirationInputs == { NULL, Some(-1), Some(4), Some(8) }

DataInputs ==
    [ drug_item_name : Drugs, location : Locations, expiration_date : ExpirationInputs ]

ExpiryClasses ==
    { <<"expired">>, <<"expiring", "_", "critical">>, <<"expiring", "_", "warning">> }

\* the alert id "<class>_<n>"
ExpiryAlertId(class, n) == class \o <<"_">> \o FormatInt(n)

\* The lists acknowledge_alerts is called with: one expiry alert id of a
\* record id up to max, or "stock_1", an id of another class whose record
\* part is a number.
AlertIdInputs(max) ==
    { ExpiryAlertId(c, n) : c \in ExpiryClasses, n \in 1..max }
        \cup { <<"stock", "_">> \o FormatInt(1) }

AlertIdListInputs(max) == { <<x>> : x \in AlertIdInputs(max) }

SettingsInputs ==
    { [ expiry_warning_days        |-> 5,
        expiry_critical_days       |-> 2,
        low_stock_threshold        |-> 1,
        enable_stock_alerts        |-> FALSE,
        enable_email_notifications |-> FALSE,
        notification_recipients    |-> <<>>,
        notification_frequency     |-> "Daily" ],
      [ expiry_warning_days        |-> 2,
        expiry_critical_days       |-> 5,
        low_stock_threshold        |-> 5,
        enable_stock_alerts        |-> TRUE,
        enable_email_notifications |-> TRUE,
        notification_recipients    |-> <<"a@x">>,
        notification_frequency     |-> "Weekly" ] }

Outcomes == { "ok", "no_connection", "execute_raises" }

(***************************************************************************)
(* The state machine.                                                      *)
(***************************************************************************)
\* a completed call: its name, whether it reported success, and for
\* get_current_alerts the settings it read and the alerts it returned
Called(op, ok, settings, alerts) ==
    [ op |-> op, ok |-> ok, settings |-> settings, alerts |-> alerts ]

NoResult(op, ok) == Called(op, ok, get_default_alert_settings, <<>>)

Init ==
    /\ today = 0
    /\ clock = 1
    /\ inventory = <<>>
    /\ alert_settings = <<>>
    /\ last = NoResult("init", TRUE)
    /\ acknowledged = {}
    /\ outbox = <<>>
    /\ calls = <<>>

\* the row INSERT INTO inventory adds: acknowledged_alerts is not in the
\* column list, so it is NULL
InsertedRow(data) ==
    [ drug_item_name      |-> data.drug_item_name,
      location            |-> data.location,
      expiration_date     |-> data.expiration_date,
      acknowledged_alerts |-> NULL ]

\* insert_inventory_record(data)
insert_inventory_record(data) ==
    /\ inventory' = Append(inventory, InsertedRow(data))
    /\ last' = NoResult("insert_inventory_record", TRUE)
    /\ UNCHANGED <<today, clock, alert_settings>>

\* (mutant) an UPDATE that writes every column of the row, acknowledged_alerts
\* included
UpdatedRow_ResetsAcknowledged(row, data) ==
    [ row EXCEPT !.drug_item_name      = data.drug_item_name,
                 !.location            = data.location,
                 !.expiration_date     = data.expiration_date,
                 !.acknowledged_alerts = NULL ]

\* the row of UPDATE inventory SET ... WHERE id = record_id:
\* acknowledged_alerts is not in the SET list
UpdatedRow(row, data) ==
    [ row EXCEPT !.drug_item_name  = data.drug_item_name,
                 !.location        = data.location,
                 !.expiration_date = data.expiration_date ]

\* update_inventory_record(record_id, data)
update_inventory_record(record_id, data) ==
    /\ record_id \in DOMAIN inventory
    /\ inventory' = [ inventory EXCEPT ![record_id] = UpdatedRow(@, data) ]
    /\ last' = NoResult("update_inventory_record", TRUE)
    /\ UNCHANGED <<today, clock, alert_settings>>

\* midnight passes
AdvanceDay ==
    /\ today < MaxDay
    /\ today' = today + 1
    /\ last' = NoResult("advance_day", TRUE)
    /\ UNCHANGED <<clock, inventory, alert_settings>>

\* (mutant) an evaluation that commits a first settings row holding the
\* defaults when the table is empty
get_current_alerts_SeedsSettings(conn, settings_conn) ==
    /\ last' = Called("get_current_alerts", conn,
                      get_alert_settings(alert_settings, settings_conn),
                      CurrentAlerts(inventory, alert_settings, today, conn, settings_conn))
    /\ alert_settings' =
           IF settings_conn /\ alert_settings = <<>>
           THEN << [ settings |-> get_default_alert_settings, updated_at |-> 1 ] >>
           ELSE alert_settings
    /\ UNCHANGED <<today, clock, inventory>>

\* get_current_alerts(); conn and settings_conn tell whether its own
\* connection and the one of get_alert_settings could be opened
get_current_alerts(conn, settings_conn) ==
    /\ last' = Called("get_current_alerts", conn,
                      get_alert_settings(alert_settings, settings_conn),
                      CurrentAlerts(inventory, alert_settings, today, conn, settings_conn))
    /\ UNCHANGED <<today, clock, inventory, alert_settings>>

\* the row INSERT INTO alert_settings adds; updated_at defaults to
\* CURRENT_TIMESTAMP, later than that of every row before it
SettingsRow(rows, settings) == [ settings |-> settings, updated_at |-> Len(rows) + 1 ]

\* (mutant) a save whose INSERT is committed before the failure is met
save_alert_settings_CommitsThenFails(settings, conn) ==
    /\ alert_settings' = Append(alert_settings,
                                [ settings |-> settings, updated_at |-> Len(alert_settings) + 1 ])
    /\ last' = Called("save_alert_settings", conn, get_default_alert_settings, <<>>)
    /\ UNCHANGED <<today, clock, inventory>>

\* (mutant) a save that keeps one row: it replaces the table by the new row
save_alert_settings_Overwrites(settings, conn) ==
    /\ alert_settings' =
           IF conn
           THEN << [ settings |-> settings, updated_at |-> Len(alert_settings) + 1 ] >>
           ELSE alert_settings
    /\ last' = Called("save_alert_settings", conn, get_default_alert_settings, <<>>)
    /\ UNCHANGED <<today, clock, inventory>>

\* get_alert_settings() called by a page: it returns the settings and never
\* raises; ok tells whether the store was read
load_alert_settings(outcome) ==
    /\ last' = Called("get_alert_settings", outcome = "ok",
                      get_alert_settings(alert_settings, outcome = "ok"), <<>>)
    /\ UNCHANGED <<today, clock, inventory, alert_settings>>

\* save_alert_settings(settings)
save_alert_settings(settings, conn) ==
    /\ alert_settings' =
           IF conn
           THEN Append(alert_settings, SettingsRow(alert_settings, settings))
           ELSE alert_settings
    /\ last' = NoResult("save_alert_settings", conn)
    /\ UNCHANGED <<today, clock, inventory>>

\* The position of the UPDATE that raises when acknowledge_alerts fails in
\* the loop: the one of the last well-formed id of the list.  (An UPDATE that
\* raises earlier leaves the ids after it unprocessed, which is the call with
\* the list cut there.)
FailingPosition(alert_ids) ==
    CHOOSE i \in 1..Len(alert_ids) :
        /\ IsWellFormed(alert_ids[i])
        /\ \A j \in (i + 1)..Len(alert_ids) : ~IsWellFormed(alert_ids[j])

\* the table inside the open transaction when the failing UPDATE raises: the
\* UPDATEs of the ids before it are applied, not committed
Uncommitted(inv, alert_ids, now) ==
    AcknowledgeLoop(inv, SubSeq(alert_ids, 1, FailingPosition(alert_ids) - 1), now)

\* (mutant) no transaction spans the batch: the UPDATEs applied before the
\* failure stay
Rollback_KeepsApplied(committed, uncommitted) == uncommitted

\* conn.rollback(): the table is what was last committed
Rollback(committed, uncommitted) == committed

\* acknowledge_alerts(alert_ids).  outcome: "ok"; "no_connection" (returns
\* False at once); "execute_raises" (an UPDATE raises: the except clause
\* rolls the transaction back and returns False).
acknowledge_alerts(alert_ids, outcome) ==
    /\ outcome = "execute_raises" => \E i \in 1..Len(alert_ids) : IsWellFormed(alert_ids[i])
    /\ inventory' =
           IF outcome = "ok"
           THEN AcknowledgeLoop(inventory, alert_ids, clock)
           ELSE IF outcome = "execute_raises"
           THEN Rollback(inventory, Uncommitted(inventory, alert_ids, clock))
           ELSE inventory
    /\ clock' = IF inventory' # inventory THEN clock + 1 ELSE clock
    /\ last' = NoResult("acknowledge_alerts", outcome = "ok")
    /\ UNCHANGED <<today, alert_settings>>

\* the history of acknowledged ids after acknowledge_alerts(alert_ids)
Acknowledged(alert_ids, outcome) ==
    IF outcome = "ok"
    THEN acknowledged \cup { [ id |-> alert_ids[i], day |-> today ] : i \in 1..Len(alert_ids) }
    ELSE acknowledged

(***************************************************************************)
(* Spec: the engine on one day.                                            *)
(***************************************************************************)
Insert ==
    /\ Len(inventory) < MaxRecords
    /\ \E data \in DataInputs : insert_inventory_record(data)
    /\ UNCHANGED <<acknowledged, outbox, calls>>

Update ==
    /\ \E record_id \in 1..MaxRecords, data \in DataInputs :
           update_inventory_record(record_id, data)
    /\ UNCHANGED <<acknowledged, outbox, calls>>

Evaluate ==
    /\ \E conn \in BOOLEAN, settings_conn \in BOOLEAN :
           get_current_alerts(conn, settings_conn)
    /\ UNCHANGED <<acknowledged, outbox, calls>>

SaveSettings ==
    /\ Len(alert_settings) < MaxSettingsRows
    /\ \E settings \in SettingsInputs, conn \in BOOLEAN :
           save_alert_settings(settings, conn)
    /\ UNCHANGED <<acknowledged, outbox, calls>>

Acknowledge ==
    /\ clock <= MaxClock
    /\ \E alert_ids \in AlertIdListInputs(MaxRecords), outcome \in Outcomes :
           acknowledge_alerts(alert_ids, outcome)
    /\ UNCHANGED <<acknowledged, outbox, calls>>

Next ==
    \/ Insert
    \/ Update
    \/ Evaluate
    \/ SaveSettings
    \/ Acknowledge

Spec == Init /\ [][Next]_vars

(***************************************************************************)
(* SpecDays: the engine under the default settings while days pass, with   *)
(* one more inventory row and the history of the acknowledged warning-tier *)
(* ids.                                                                    *)
(***************************************************************************)
WarningIdListInputs(ids) ==
    { <<ExpiryAlertId(<<"expiring", "_", "warning">>, n)>> : n \in ids }

InsertDays ==
    /\ Len(inventory) < MaxRecords + 1
    /\ \E data \in DataInputs : insert_inventory_record(data)
    /\ UNCHANGED <<acknowledged, outbox, calls>>

Midnight ==
    /\ AdvanceDay
    /\ UNCHANGED <<acknowledged, outbox, calls>>

EvaluateDays ==
    /\ get_current_alerts(TRUE, TRUE)
    /\ UNCHANGED <<acknowledged, outbox, calls>>

AcknowledgeDays ==
    /\ clock <= MaxClock
    /\ \E alert_ids \in WarningIdListInputs(DOMAIN inventory), outcome \in Outcomes :
           /\ acknowledge_alerts(alert_ids, outcome)
           /\ acknowledged' = Acknowledged(alert_ids, outcome)
    /\ UNCHANGED <<outbox, calls>>

NextDays ==
    \/ InsertDays
    \/ Midnight
    \/ EvaluateDays
    \/ AcknowledgeDays

SpecDays == Init /\ [][NextDays]_vars

(***************************************************************************)
(* SpecStock: the stock evaluation over two drugs, with one more inventory *)
(* row than Spec, under the default or a saved threshold.                  *)
(***************************************************************************)
StockDrugs == { <<"DrugA">>, <<"DrugB">> }

StockDataInputs ==
    [ drug_item_name : StockDrugs, location : Locations,
      expiration_date : { NULL, Some(-1), Some(4) } ]

InsertStock ==
    /\ Len(inventory) < MaxStock
    /\ \E data \in StockDataInputs : insert_inventory_record(data)
    /\ UNCHANGED <<acknowledged, outbox, calls>>

SaveStock ==
    /\ Len(alert_settings) < MaxSettingsRows
    /\ \E settings \in SettingsInputs : save_alert_settings(settings, TRUE)
    /\ UNCHANGED <<acknowledged, outbox, calls>>

EvaluateStock ==
    /\ get_current_alerts(TRUE, TRUE)
    /\ UNCHANGED <<acknowledged, outbox, calls>>

NextStock ==
    \/ InsertStock
    \/ SaveStock
    \/ EvaluateStock

SpecStock == Init /\ [][NextStock]_vars

(***************************************************************************)
(* Vocabulary of the properties.                                           *)
(***************************************************************************)
ExpiredKey == <<"expired">>
CriticalKey == <<"expiring", "_", "critical">>
WarningKey == <<"expiring", "_", "warning">>

\* the last call was a get_current_alerts that reached the store, so that
\* last.alerts is the evaluation of the present state
Evaluated == last.op = "get_current_alerts" /\ last.ok

\* the last call was an acknowledge_alerts that returned True
AcknowledgedOk == last.op = "acknowledge_alerts" /\ last.ok

IsExpired(row, now) == \E d \in row.expiration_date : d < now

InCriticalWindow(row, now, settings) ==
    \E d \in row.expiration_date :
        now <= d /\ d <= now + settings.expiry_critical_days

InWarningWindow(row, now, settings) ==
    \E d \in row.expiration_date :
        /\ now + settings.expiry_critical_days < d
        /\ d <= now + settings.expiry_warning_days

\* the positions of the alerts with the given id
Positions(alerts, alert_id) == { i \in 1..Len(alerts) : alerts[i].id = alert_id }

\* exactly one alert has the id, and it is an expiry alert of the given
\* type and severity with the given days_until_expiry
ExactlyOneExpiryAlert(alerts, alert_id, n, alert_type, severity, days) ==
    /\ Cardinality(Positions(alerts, alert_id)) = 1
    /\ \A i \in Positions(alerts, alert_id) :
           /\ alerts[i].record_id = Some(n)
           /\ alerts[i].alert_type = alert_type
           /\ alerts[i].severity = severity
           /\ alerts[i].days_until_expiry = days

\* a healthy evaluation of the present state under the current settings
EvaluationNow == CurrentAlerts(inventory, alert_settings, today, TRUE, TRUE)

\* the same after the step
EvaluationNext == CurrentAlerts(inventory', alert_settings', today', TRUE, TRUE)

(***************************************************************************)
(* C1: an expiry alert id X returned by get_current_alerts is not returned *)
(* by the evaluation that follows a successful acknowledge_alerts([X]).    *)
(* The step is the acknowledge_alerts call that directly follows the       *)
(* evaluation that returned X; the following evaluation is that of the     *)
(* state the step leaves.                                                  *)
(***************************************************************************)
C1_AcknowledgedAlertSuppressed ==
    [][ \A c \in ExpiryClasses, n \in 1..MaxRecords :
          LET X == ExpiryAlertId(c, n)
          IN  ( /\ Evaluated
                /\ last.alerts = EvaluationNow
                /\ X \in AlertIds(last.alerts)
                /\ acknowledge_alerts(<<X>>, "ok") )
              => X \notin AlertIds(EvaluationNext) ]_vars

(***************************************************************************)
(* C2: every record with expiration_date < today and no "expired" key has  *)
(* exactly one alert expired_<id> in the result of get_current_alerts: an  *)
(* Expired alert of severity Critical whose days since expiry are          *)
(* today - expiration_date.                                                *)
(***************************************************************************)
C2_ExpiredAlertReturned ==
    Evaluated =>
        \A n \in DOMAIN inventory :
            ( IsExpired(inventory[n], today) /\ ExpiredKey \notin AckKeys(inventory[n]) )
            => /\ today - TheValue(inventory[n].expiration_date) > 0
               /\ ExactlyOneExpiryAlert(last.alerts, ExpiryAlertId(ExpiredKey, n), n,
                      "Expired", "Critical",
                      0 - (today - TheValue(inventory[n].expiration_date)))

(***************************************************************************)
(* C3: every record with today <= expiration_date <= today +               *)
(* expiry_critical_days and no "expiring_critical" key has exactly one     *)
(* alert expiring_critical_<id> in the result: Expiring Soon, Critical,    *)
(* days_until_expiry = expiration_date - today.                            *)
(***************************************************************************)
C3_CriticalAlertReturned ==
    Evaluated =>
        \A n \in DOMAIN inventory :
            ( /\ InCriticalWindow(inventory[n], today, last.settings)
              /\ CriticalKey \notin AckKeys(inventory[n]) )
            => ExactlyOneExpiryAlert(last.alerts, ExpiryAlertId(CriticalKey, n), n,
                   "Expiring Soon", "Critical",
                   TheValue(inventory[n].expiration_date) - today)

(***************************************************************************)
(* C4: every record with today + expiry_critical_days < expiration_date <= *)
(* today + expiry_warning_days has exactly one alert expiring_warning_<id> *)
(* in the result (Expiring Soon, Warning, days_until_expiry =              *)
(* expiration_date - today), and the alert is absent only if the record    *)
(* has the "expiring_warning" key.                                         *)
(***************************************************************************)
C4_WarningAlertReturned ==
    Evaluated =>
        \A n \in DOMAIN inventory :
            InWarningWindow(inventory[n], today, last.settings)
            => \/ ExactlyOneExpiryAlert(last.alerts, ExpiryAlertId(WarningKey, n), n,
                      "Expiring Soon", "Warning",
                      TheValue(inventory[n].expiration_date) - today)
               \/ /\ Positions(last.alerts, ExpiryAlertId(WarningKey, n)) = {}
                  /\ WarningKey \in AckKeys(inventory[n])

(***************************************************************************)
(* C5: one evaluation returns the alerts of all classes: with an           *)
(* unacknowledged expired record, a record in the critical window and a    *)
(* record in the warning window at the same time, the result holds the     *)
(* Expired alert of the first and the Expiring Soon alerts of the other    *)
(* two; and the expiry alerts of a record are those it has when it is the  *)
(* only row of the table.                                                  *)
(***************************************************************************)
\* the alerts of a list that belong to record n
AlertsOfRecord(alerts, n) ==
    { alerts[i] : i \in { j \in 1..Len(alerts) : alerts[j].record_id = Some(n) } }

\* the table with row n alone
Alone(inv, n) == [i \in {n} |-> inv[i]]

C5_AllClassesReturned ==
    Evaluated =>
        /\ \A e \in DOMAIN inventory, c \in DOMAIN inventory, w \in DOMAIN inventory :
               ( /\ IsExpired(inventory[e], today)
                 /\ ExpiredKey \notin AckKeys(inventory[e])
                 /\ InCriticalWindow(inventory[c], today, last.settings)
                 /\ CriticalKey \notin AckKeys(inventory[c])
                 /\ InWarningWindow(inventory[w], today, last.settings)
                 /\ WarningKey \notin AckKeys(inventory[w]) )
               => { ExpiryAlertId(ExpiredKey, e), ExpiryAlertId(CriticalKey, c),
                    ExpiryAlertId(WarningKey, w) } \subseteq AlertIds(last.alerts)
        /\ \A n \in DOMAIN inventory :
               AlertsOfRecord(last.alerts, n) =
                   AlertsOfRecord(CurrentAlerts(Alone(inventory, n), alert_settings,
                                                today, TRUE, TRUE), n)

(***************************************************************************)
(* C6: for each class in {expired, expiring_critical, expiring_warning}    *)
(* and each existing record n, acknowledge_alerts(["<class>_<n>"]) adds    *)
(* the key "<class>_acknowledged" with the time of the call to record n's  *)
(* map and keeps every key, with its value, that was in the map.           *)
(***************************************************************************)
AcknowledgeKey(class) == class \o <<"_", "acknowledged">>

C6_ClassKeyAdded ==
    [][ \A c \in ExpiryClasses, n \in DOMAIN inventory :
          acknowledge_alerts(<<ExpiryAlertId(c, n)>>, "ok")
          => LET before == Coalesce(inventory[n].acknowledged_alerts)
                 after  == Coalesce(inventory'[n].acknowledged_alerts)
             IN  /\ AcknowledgeKey(c) \in DOMAIN after
                 /\ after[AcknowledgeKey(c)] = clock
                 /\ \A k \in DOMAIN before :
                        /\ k \in DOMAIN after
                        /\ k # AcknowledgeKey(c) => after[k] = before[k] ]_vars

(***************************************************************************)
(* C7: when acknowledge_alerts(["expiring_warning_<n>"]) succeeded for a   *)
(* record in the warning window and the date has advanced so that the      *)
(* record's expiration_date lies in the critical window, the result of     *)
(* get_current_alerts holds a Critical alert expiring_critical_<n>.        *)
(***************************************************************************)
C7_TierChangeNotSuppressed ==
    Evaluated =>
        \A n \in DOMAIN inventory, h \in acknowledged :
            ( /\ h.id = ExpiryAlertId(WarningKey, n)
              /\ h.day < today
              /\ InWarningWindow(inventory[n], h.day, last.settings)
              /\ InCriticalWindow(inventory[n], today, last.settings) )
            => \E i \in Positions(last.alerts, ExpiryAlertId(CriticalKey, n)) :
                   last.alerts[i].severity = "Critical"

(***************************************************************************)
(* C8 (as claimed): acknowledging an id that is already acknowledged, at a *)
(* later clock time, succeeds and leaves every acknowledged_alerts map     *)
(* with the content it had: the same keys and the same timestamps.         *)
(***************************************************************************)
\* the record id and the key the UPDATE for a well-formed id uses
RecordOf(alert_id) == ParseInt(SplitFirst(alert_id)[2])
KeyOf(alert_id) == SplitFirst(alert_id)[1] \o <<"_", "acknowledged">>

\* alert_id was acknowledged before: its key is in its record's map
AlreadyAcknowledged(inv, alert_id) ==
    /\ IsWellFormed(alert_id)
    /\ RecordOf(alert_id) \in DOMAIN inv
    /\ KeyOf(alert_id) \in AckKeys(inv[RecordOf(alert_id)])

C9_AcknowledgedKeysNeverRemoved ==
    [][ \A n \in DOMAIN inventory :
          /\ n \in DOMAIN inventory'
          /\ AckKeys(inventory[n]) \subseteq AckKeys(inventory'[n]) ]_vars

\* record 1 carries two keys and has been updated since
C9_Witness ==
    /\ last.op = "update_inventory_record"
    /\ Len(inventory) >= 1
    /\ Cardinality(AckKeys(inventory[1])) = 2

(***************************************************************************)
(* C10: when the settings in force have enable_stock_alerts = false, the   *)
(* result of get_current_alerts holds no Low Stock and no Out of Stock     *)
(* alert.                                                                  *)
(***************************************************************************)
C10_NoStockAlertsWhileDisabled ==
    ( Evaluated /\ ~last.settings.enable_stock_alerts )
    => \A i \in 1..Len(last.alerts) :
           last.alerts[i].alert_type \notin { "Low Stock", "Out of Stock" }

(***************************************************************************)
(* C11: after get_current_alerts, every (drug_item_name, location) group   *)
(* of non-expired records (records with an expiration_date on or after     *)
(* today) whose count is at most low_stock_threshold has exactly one stock *)
(* alert, with stock_count equal to the count, severity Warning for a      *)
(* count of 1 or 2 and Info above, and type "Low Stock"; a group whose     *)
(* count exceeds the threshold has none; and the alert built for a count   *)
(* of 0 is Critical "Out of Stock".                                        *)
(***************************************************************************)
\* the stock alerts of a list
IsStockAlert(alert) == "stock_count" \in DOMAIN alert

\* the positions of the stock alerts of a list for one group
StockAlertsFor(alerts, drug, location) ==
    { i \in 1..Len(alerts) :
        /\ IsStockAlert(alerts[i])
        /\ alerts[i].item_name = drug
        /\ alerts[i].location = location }

\* the number of non-expired records of a group
GroupCount(inv, now, drug, location) ==
    Cardinality({ n \in DOMAIN inv :
        /\ inv[n].drug_item_name = drug
        /\ inv[n].location = location
        /\ \E d \in inv[n].expiration_date : d >= now })

C11_StockGroupingAndSeverity ==
    /\ \A drug \in StockDrugs, location \in Locations :
           /\ StockAlert(<<drug, location, 0>>).severity = "Critical"
           /\ StockAlert(<<drug, location, 0>>).alert_type = "Out of Stock"
    /\ Evaluated =>
         \A drug \in StockDrugs, location \in Locations :
           LET count == GroupCount(inventory, today, drug, location)
               hits  == StockAlertsFor(last.alerts, drug, location)
           IN  /\ (1 <= count /\ count <= last.settings.low_stock_threshold)
                  => /\ Cardinality(hits) = 1
                     /\ \A i \in hits :
                          /\ last.alerts[i].stock_count = count
                          /\ last.alerts[i].alert_type = "Low Stock"
                          /\ last.alerts[i].severity =
                                 IF count \in {1, 2} THEN "Warning" ELSE "Info"
               /\ count > last.settings.low_stock_threshold => hits = {}

\* an evaluation has returned one stock alert for each of two groups
C11_Witness ==
    /\ Evaluated
    /\ \E i \in StockAlertsFor(last.alerts, <<"DrugA">>, <<"LocX">>) :
           last.alerts[i].stock_count = 2
    /\ \E i \in StockAlertsFor(last.alerts, <<"DrugB">>, <<"LocX">>) :
           last.alerts[i].stock_count = 1

(***************************************************************************)
(* C12 (as claimed): with exactly three non-expired records of one (drug,  *)
(* location) pair and low_stock_threshold 5, get_current_alerts returns a  *)
(* Warning "Low Stock" alert for the pair with stock_count = 3.            *)
(***************************************************************************)
\* the inventory is three non-expired records of one pair, the threshold is 5
ThreeOfOnePair(drug, location) ==
    /\ Len(inventory) = 3
    /\ GroupCount(inventory, today, drug, location) = 3
    /\ last.settings.low_stock_threshold = 5

C12_ThreeRecordsWarning ==
    Evaluated =>
        \A drug \in StockDrugs, location \in Locations :
            ThreeOfOnePair(drug, location)
            => \E i \in StockAlertsFor(last.alerts, drug, location) :
                   /\ last.alerts[i].severity = "Warning"
                   /\ last.alerts[i].alert_type = "Low Stock"
                   /\ last.alerts[i].stock_count = 3

(***************************************************************************)
(* C12 (amended): with exactly three non-expired records of one (drug,     *)
(* location) pair and low_stock_threshold 5, get_current_alerts returns    *)
(* one stock alert for the pair: an Info "Low Stock" alert with            *)
(* stock_count = 3.                                                        *)
(***************************************************************************)
C12_ThreeRecordsInfo ==
    Evaluated =>
        \A drug \in StockDrugs, location \in Locations :
            ThreeOfOnePair(drug, location)
            => /\ Cardinality(StockAlertsFor(last.alerts, drug, location)) = 1
               /\ \A i \in StockAlertsFor(last.alerts, drug, location) :
                      /\ last.alerts[i].severity = "Info"
                      /\ last.alerts[i].alert_type = "Low Stock"
                      /\ last.alerts[i].stock_count = 3

\* an evaluation of three non-expired DrugB records under threshold 5
C12_Witness ==
    /\ Evaluated
    /\ ThreeOfOnePair(<<"DrugB">>, <<"LocX">>)
    /\ StockAlertsFor(last.alerts, <<"DrugB">>, <<"LocX">>) # {}

(***************************************************************************)
(* C13: no alert returned by get_current_alerts has stock_count = 0 or     *)
(* type "Out of Stock"; a pair with no non-expired record (an empty        *)
(* inventory, or records that are all expired) has no stock alert.         *)
(***************************************************************************)
C13_NoZeroCountGroup ==
    Evaluated =>
        /\ \A i \in 1..Len(last.alerts) :
               /\ last.alerts[i].alert_type # "Out of Stock"
               /\ IsStockAlert(last.alerts[i]) => last.alerts[i].stock_count # 0
        /\ \A drug \in StockDrugs, location \in Locations :
               GroupCount(inventory, today, drug, location) = 0
               => StockAlertsFor(last.alerts, drug, location) = {}

\* an evaluation of an inventory whose DrugA records are all expired, while
\* the other pair has its alert
C13_Witness ==
    /\ Evaluated
    /\ \E n \in DOMAIN inventory :
           inventory[n].drug_item_name = <<"DrugA">> /\ IsExpired(inventory[n], today)
    /\ GroupCount(inventory, today, <<"DrugA">>, <<"LocX">>) = 0
    /\ StockAlertsFor(last.alerts, <<"DrugB">>, <<"LocX">>) # {}

(***************************************************************************)
(* SpecBatch: acknowledge_alerts called with lists of several ids, some of *)
(* them malformed, with the outcome of the call kept as history.           *)
(***************************************************************************)
\* the ids of the stock alerts an evaluation of the current state returns
StockAlertIds ==
    { EvaluationNow[i].id : i \in { j \in 1..Len(EvaluationNow) : IsStockAlert(EvaluationNow[j]) } }

\* the ids of the lists: "expired_1", "expired_2", an id with no underscore,
\* and the stock alert ids on display
BatchIdInputs ==
    { ExpiryAlertId(ExpiredKey, n) : n \in {1, 2} } \cup { <<"bogus">> } \cup StockAlertIds

BatchListInputs ==
    UNION { [1..k -> BatchIdInputs] : k \in 1..MaxBatch }

InsertBatch ==
    /\ Len(inventory) < MaxRecords
    /\ insert_inventory_record([ drug_item_name  |-> <<"DrugA">>,
                                 location        |-> <<"LocX">>,
                                 expiration_date |-> Some(4) ])
    /\ UNCHANGED <<acknowledged, outbox, calls>>

AcknowledgeBatch ==
    /\ clock <= MaxClock
    /\ \E alert_ids \in BatchListInputs, outcome \in Outcomes :
           /\ acknowledge_alerts(alert_ids, outcome)
           /\ acknowledged' = { [ ids |-> alert_ids, outcome |-> outcome ] }
    /\ UNCHANGED <<outbox, calls>>

NextBatch ==
    \/ InsertBatch
    \/ AcknowledgeBatch

SpecBatch == Init /\ [][NextBatch]_vars

\* the step is a call of acknowledge_alerts with this outcome, and its list
BatchStep(outcome) ==
    /\ last'.op = "acknowledge_alerts"
    /\ \A b \in acknowledged' : b.outcome = outcome

BatchStepIds == (CHOOSE b \in acknowledged' : TRUE).ids

\* the last acknowledge_alerts call had this list and this outcome
LastBatch(alert_ids, outcome) ==
    /\ last.op = "acknowledge_alerts"
    /\ acknowledged = { [ ids |-> alert_ids, outcome |-> outcome ] }

(***************************************************************************)
(* C14: for every stock alert id stock_<drug>_<location> an evaluation     *)
(* returns, acknowledge_alerts([id]) returns success, leaves every         *)
(* record's acknowledged_alerts map unchanged, and the next evaluation     *)
(* returns the same stock alert.                                           *)
(***************************************************************************)
C14_StockAcknowledgmentIsNoOp ==
    [][ ( BatchStep("ok") /\ Len(BatchStepIds) = 1 )
        => LET shown == EvaluationNow
           IN  \A i \in 1..Len(shown) :
                 ( IsStockAlert(shown[i]) /\ BatchStepIds = <<shown[i].id>> )
                 => /\ last'.ok
                    /\ inventory' = inventory
                    /\ \E j \in 1..Len(EvaluationNext) : EvaluationNext[j] = shown[i] ]_vars

\* acknowledge_alerts(["stock_DrugA_LocX"]) has returned True while the alert
\* is on display
C14_Witness ==
    /\ LastBatch(<< <<"stock", "_", "DrugA", "_", "LocX">> >>, "ok")
    /\ last.ok
    /\ <<"stock", "_", "DrugA", "_", "LocX">> \in StockAlertIds

(***************************************************************************)
(* C15: when acknowledge_alerts succeeds on a list that mixes malformed    *)
(* ids (no underscore, or a record part that is not a number) with         *)
(* well-formed ones, no malformed id writes anything and every well-formed *)
(* id, before or after a malformed one, is applied: record n gets the key  *)
(* of each "expired_<n>" of the list, stamped with the time of the call,   *)
(* and nothing else changes.                                               *)
(***************************************************************************)
\* the keys a list writes to record n
KeysFor(alert_ids, n) ==
    IF \E i \in 1..Len(alert_ids) : alert_ids[i] = ExpiryAlertId(ExpiredKey, n)
    THEN { AcknowledgeKey(ExpiredKey) }
    ELSE {}

C16_FailedIdsReported ==
    [][ ( BatchStep("ok")
          /\ \E i \in 1..Len(BatchStepIds) : ~IsWellFormed(BatchStepIds[i]) )
        => last'.ok # TRUE ]_vars

(***************************************************************************)
(* C17 (as claimed): when acknowledge_alerts processes [a, b] and the      *)
(* write for b fails after the write for a was applied, the call reports   *)
(* failure and the key written for a is in the store afterwards.           *)
(***************************************************************************)
\* a list [a, b] of two well-formed ids for different existing records
TwoWrites(alert_ids) ==
    /\ Len(alert_ids) = 2
    /\ \A i \in 1..2 : IsWellFormed(alert_ids[i]) /\ RecordOf(alert_ids[i]) \in DOMAIN inventory
    /\ alert_ids[1] # alert_ids[2]

C17_AppliedWriteKept ==
    [][ ( BatchStep("execute_raises") /\ TwoWrites(BatchStepIds) )
        => LET a     == BatchStepIds[1]
               after == Coalesce(inventory'[RecordOf(a)].acknowledged_alerts)
           IN  /\ ~last'.ok
               /\ KeyOf(a) \in DOMAIN after
               /\ after[KeyOf(a)] = clock ]_vars

(***************************************************************************)
(* C17 (amended): when acknowledge_alerts processes [a, b] and the write   *)
(* for b fails after the write for a was applied, the call reports failure *)
(* and the write for a is rolled back with it: every inventory row is as   *)
(* it was before the call.                                                 *)
(***************************************************************************)
C17_AppliedWriteRolledBack ==
    [][ ( BatchStep("execute_raises") /\ TwoWrites(BatchStepIds) )
        => /\ ~last'.ok
           /\ inventory' = inventory ]_vars

\* acknowledge_alerts(["expired_1", "expired_2"]) has failed at the second
\* write and record 1 carries no key
C17_Witness ==
    /\ LastBatch(<< ExpiryAlertId(ExpiredKey, 1), ExpiryAlertId(ExpiredKey, 2) >>,
                 "execute_raises")
    /\ ~last.ok
    /\ Len(inventory) = 2
    /\ AckKeys(inventory[1]) = {}

(***************************************************************************)
(* C18: a call of get_current_alerts, successful or failing, leaves every  *)
(* inventory row, each acknowledged_alerts map included, and the sequence  *)
(* of alert_settings rows unchanged.                                       *)
(***************************************************************************)
C18_EvaluationReadOnly ==
    [][ last'.op = "get_current_alerts"
        => /\ inventory' = inventory
           /\ alert_settings' = alert_settings ]_vars

\* a failing evaluation over a store that holds an acknowledgment and a
\* settings row
C18_Witness ==
    /\ last.op = "get_current_alerts"
    /\ ~last.ok
    /\ Len(inventory) >= 1
    /\ AckKeys(inventory[1]) # {}
    /\ alert_settings # <<>>

(***************************************************************************)
(* SpecSettings: the settings store with one more version, read by         *)
(* get_alert_settings, beside the other operations of the engine.          *)
(***************************************************************************)
InsertSettings ==
    /\ Len(inventory) < MaxRecords
    /\ insert_inventory_record([ drug_item_name  |-> <<"DrugA">>,
                                 location        |-> <<"LocX">>,
                                 expiration_date |-> Some(4) ])
    /\ UNCHANGED <<acknowledged, outbox, calls>>

SaveVersion ==
    /\ Len(alert_settings) < MaxVersions
    /\ \E settings \in SettingsInputs, conn \in BOOLEAN :
           /\ save_alert_settings(settings, conn)
           /\ acknowledged' = IF conn THEN { settings } ELSE acknowledged
    /\ UNCHANGED <<outbox, calls>>

LoadSettings ==
    /\ \E outcome \in Outcomes : load_alert_settings(outcome)
    /\ UNCHANGED <<acknowledged, outbox, calls>>

EvaluateSettings ==
    /\ \E conn \in BOOLEAN, settings_conn \in BOOLEAN :
           get_current_alerts(conn, settings_conn)
    /\ UNCHANGED <<acknowledged, outbox, calls>>

AcknowledgeSettings ==
    /\ clock <= MaxClock
    /\ \E outcome \in Outcomes :
           acknowledge_alerts(<<ExpiryAlertId(ExpiredKey, 1)>>, outcome)
    /\ UNCHANGED <<acknowledged, outbox, calls>>

NextSettings ==
    \/ InsertSettings
    \/ SaveVersion
    \/ LoadSettings
    \/ EvaluateSettings
    \/ AcknowledgeSettings

SpecSettings == Init /\ [][NextSettings]_vars

(***************************************************************************)
(* C19: get_alert_settings returns the value of the last successful        *)
(* save_alert_settings; when no save succeeded, or the store is            *)
(* unreachable or the read raises, it returns the defaults (warning 30,    *)
(* critical 7, low stock 5, stock alerts on, email off, no recipients,     *)
(* Daily); it returns in every case.                                       *)
(***************************************************************************)
DefaultsAsClaimed ==
    [ expiry_warning_days        |-> 30,
      expiry_critical_days       |-> 7,
      low_stock_threshold        |-> 5,
      enable_stock_alerts        |-> TRUE,
      enable_email_notifications |-> FALSE,
      notification_recipients    |-> <<>>,
      notification_frequency     |-> "Daily" ]

C19_LatestSettingsOrDefaults ==
    last.op = "get_alert_settings"
    => IF last.ok /\ acknowledged # {}
       THEN last.settings \in acknowledged
       ELSE last.settings = DefaultsAsClaimed

\* a healthy read after two saves of different values
C19_Witness ==
    /\ last.op = "get_alert_settings"
    /\ last.ok
    /\ Len(alert_settings) = 2
    /\ alert_settings[1].settings # alert_settings[2].settings
    /\ last.settings = alert_settings[2].settings

(***************************************************************************)
(* C20: every successful save_alert_settings adds exactly one row, holding *)
(* the settings saved, to the settings store; no step of any operation     *)
(* modifies or deletes an existing row: the number of rows never decreases *)
(* and earlier rows keep their content.                                    *)
(***************************************************************************)
C20_SettingsAppendOnly ==
    [][ /\ Len(alert_settings') >= Len(alert_settings)
        /\ \A i \in 1..Len(alert_settings) : alert_settings'[i] = alert_settings[i]
        /\ (last'.op = "save_alert_settings" /\ last'.ok)
           => /\ Len(alert_settings') = Len(alert_settings) + 1
              /\ alert_settings'[Len(alert_settings')].settings \in acknowledged' ]_vars

\* a second successful save
C20_Witness ==
    /\ last.op = "save_alert_settings"
    /\ last.ok
    /\ Len(alert_settings) = 2

(***************************************************************************)
(* C21: when save_alert_settings fails (the store is unreachable or the    *)
(* insert raises) it returns failure, the settings rows are the same as    *)
(* before the call, and get_alert_settings returns afterwards what it      *)
(* returned before.                                                        *)
(***************************************************************************)
C21_FailedSaveLeavesNoTrace ==
    [][ (last'.op = "save_alert_settings" /\ ~last'.ok)
        => /\ alert_settings' = alert_settings
           /\ get_alert_settings(alert_settings', TRUE) = get_alert_settings(alert_settings, TRUE) ]_vars

\* a save has failed over a store that holds a saved row, which is still
\* what get_alert_settings returns
C21_Witness ==
    /\ last.op = "save_alert_settings"
    /\ ~last.ok
    /\ Len(alert_settings) = 1
    /\ get_alert_settings(alert_settings, TRUE) \in acknowledged

(***************************************************************************)
(* C22: when the connection of get_current_alerts or the one of            *)
(* get_alert_settings cannot be opened, get_current_alerts returns an      *)
(* empty sequence, and what it returns differs from what a healthy         *)
(* evaluation that finds no alert returns.                                 *)
(***************************************************************************)
\* what get_current_alerts hands to its caller: the list, nothing else
Returned(call) == call.alerts

C22_StoreFailureDistinct ==
    [][ \A conn \in BOOLEAN, settings_conn \in BOOLEAN :
          ( (~conn \/ ~settings_conn) /\ get_current_alerts(conn, settings_conn) )
          => /\ Len(Returned(last')) = 0
             /\ Returned(last') #
                  Returned(Called("get_current_alerts", TRUE,
                                  get_alert_settings(alert_settings, TRUE), <<>>)) ]_vars

(***************************************************************************)
(* SpecNames: evaluation over drug and location names that contain spaces. *)
(***************************************************************************)
SpacedDrugs == { <<"A">>, <<"A", " ", "B">> }
SpacedLocations == { <<"C">>, <<"B", " ", "C">> }

NamesDataInputs ==
    [ drug_item_name : SpacedDrugs, location : SpacedLocations,
      expiration_date : { Some(-1), Some(4) } ]

InsertNames ==
    /\ Len(inventory) < MaxRecords
    /\ \E data \in NamesDataInputs : insert_inventory_record(data)
    /\ UNCHANGED <<acknowledged, outbox, calls>>

EvaluateNames ==
    /\ get_current_alerts(TRUE, TRUE)
    /\ UNCHANGED <<acknowledged, outbox, calls>>

NextNames ==
    \/ InsertNames
    \/ EvaluateNames

SpecNames == Init /\ [][NextNames]_vars

(***************************************************************************)
(* C26: no two alerts of the sequence one get_current_alerts call returns  *)
(* have the same id, also when drug and location names contain spaces      *)
(* (groups ("A B", "C") and ("A", "B C")).                                 *)
(***************************************************************************)
C26_AlertIdsUnique ==
    Evaluated =>
        \A i \in 1..Len(last.alerts), j \in 1..Len(last.alerts) :
            last.alerts[i].id = last.alerts[j].id => i = j

(***************************************************************************)
(* C27: for all settings with expiry_warning_days >= 1 and                 *)
(* expiry_critical_days >= 1, expiry_critical_days > expiry_warning_days   *)
(* included, the result of one get_current_alerts call holds at most one   *)
(* expiry alert for a record id.                                           *)
(***************************************************************************)
C27_OneExpiryAlertPerRecord ==
    ( /\ Evaluated
      /\ last.settings.expiry_warning_days >= 1
      /\ last.settings.expiry_critical_days >= 1 )
    => \A n \in DOMAIN inventory :
           Cardinality({ i \in 1..Len(last.alerts) : last.alerts[i].record_id = Some(n) }) <= 1

\* an evaluation under settings with the critical window wider than the
\* warning window has returned an expiry alert
C27_Witness ==
    /\ Evaluated
    /\ last.settings.expiry_critical_days > last.settings.expiry_warning_days
    /\ \E i \in 1..Len(last.alerts) : last.alerts[i].record_id # NULL

(***************************************************************************)
(* C28: a record without expiration_date has no Expired and no Expiring    *)
(* Soon alert, and it is not counted in the stock count of its (drug,      *)
(* location) group: a stock alert counts at most the dated records of its  *)
(* group, and a group of undated records only has no stock alert.          *)
(***************************************************************************)
\* the records of a group that have an expiration_date
DatedRecords(inv, drug, location) ==
    { n \in DOMAIN inv :
        /\ inv[n].drug_item_name = drug
        /\ inv[n].location = location
        /\ inv[n].expiration_date # NULL }

C28_UndatedRecordIgnored ==
    Evaluated =>
        /\ \A n \in DOMAIN inventory :
               inventory[n].expiration_date = NULL
               => \A i \in 1..Len(last.alerts) : last.alerts[i].record_id # Some(n)
        /\ \A drug \in StockDrugs, location \in Locations :
               \A i \in StockAlertsFor(last.alerts, drug, location) :
                   last.alerts[i].stock_count
                       <= Cardinality(DatedRecords(inventory, drug, location))

\* an evaluation of an inventory whose DrugA records all lack a date, while
\* the other pair has its alert
C28_Witness ==
    /\ Evaluated
    /\ \E n \in DOMAIN inventory :
           inventory[n].drug_item_name = <<"DrugA">> /\ inventory[n].expiration_date = NULL
    /\ DatedRecords(inventory, <<"DrugA">>, <<"LocX">>) = {}
    /\ StockAlertsFor(last.alerts, <<"DrugA">>, <<"LocX">>) = {}
    /\ StockAlertsFor(last.alerts, <<"DrugB">>, <<"LocX">>) # {}

(***************************************************************************)
(* C29: acknowledge_alerts(["<class>_<n>"]) changes nothing but the        *)
(* acknowledged_alerts map of record n: every other record, every other    *)
(* field of record n and the settings rows are unchanged; when no record   *)
(* has id n the call returns success and changes nothing.                  *)
(***************************************************************************)
\* the record id an alert id "<class>_<n>" ends with
TargetOf(alert_id) == ParseInt(<<alert_id[Len(alert_id)]>>)

C29_AcknowledgmentTouchesTarget ==
    [][ ( /\ BatchStep("ok")
          /\ Len(BatchStepIds) = 1
          /\ IsWellFormed(BatchStepIds[1]) )
        => /\ last'.ok
           /\ alert_settings' = alert_settings
           /\ DOMAIN inventory' = DOMAIN inventory
           /\ \A m \in DOMAIN inventory :
                IF m = TargetOf(BatchStepIds[1])
                THEN [ inventory'[m] EXCEPT !.acknowledged_alerts = NULL ]
                       = [ inventory[m] EXCEPT !.acknowledged_alerts = NULL ]
                ELSE inventory'[m] = inventory[m] ]_vars

\* the call with the list ["expired_1"] has written an acknowledgment to
\* record 1 beside an untouched record 2
C29_Witness ==
    /\ LastBatch(<<ExpiryAlertId(ExpiredKey, 1)>>, "ok")
    /\ Len(inventory) = 2
    /\ \E k \in AckKeys(inventory[1]) :
           Coalesce(inventory[1].acknowledged_alerts)[k] = clock - 1
    /\ AckKeys(inventory[2]) = {}

(***************************************************************************)
(* The alert summary e-mail.  A text is a sequence of tokens as before; a  *)
(* fixed piece of an f-string is one token and "," is a token of its own.  *)
(* The content is kept as the sequence of its lines (blank lines and the   *)
(* indentation of the triple-quoted text left out).                        *)
(***************************************************************************)
RECURSIVE SplitCommas(_)
\* s.split(','): the pieces between the commas, empty pieces included
SplitCommas(s) ==
    IF \A i \in 1..Len(s) : s[i] # "," THEN <<s>>
    ELSE LET p == CHOOSE i \in 1..Len(s) :
                      /\ s[i] = ","
                      /\ \A j \in 1..(i - 1) : s[j] # ","
         IN  <<SubSeq(s, 1, p - 1)>> \o SplitCommas(SubSeq(s, p + 1, Len(s)))

RECURSIVE Strip(_)
\* s.strip(): without the blanks at its two ends
Strip(s) ==
    IF s # <<>> /\ Head(s) = " " THEN Strip(Tail(s))
    ELSE IF s # <<>> /\ s[Len(s)] = " " THEN Strip(SubSeq(s, 1, Len(s) - 1))
    ELSE s

\* (mutant) a gate that looks at the recipients only
NotificationsConfigured_RecipientsOnly(settings) ==
    settings.notification_recipients # <<>>

\* the negation of the condition of the early return: both settings truthy
NotificationsConfigured(settings) ==
    /\ settings.enable_email_notifications
    /\ settings.notification_recipients # <<>>

\* [email.strip() for email in settings['notification_recipients'].split(',')]
Recipients(settings) ==
    LET pieces == SplitCommas(settings.notification_recipients)
    IN  [i \in 1..Len(pieces) |-> Strip(pieces[i])]

\* the number of items of one severity the content lists
SummaryLimit == 10

\* f"Inventory Alert Summary - {len(alerts)} Active Alerts"
SummarySubject(alerts) ==
    <<"Inventory Alert Summary - ">> \o FormatInt(Len(alerts)) \o <<" Active Alerts">>

IsCritical(alert) == alert.severity = "Critical"
IsWarning(alert) == alert.severity = "Warning"

\* (mutant) a list that is not cut
FirstItems_NoLimit(list) == list

\* list[:10]
FirstItems(list) ==
    SubSeq(list, 1, IF Len(list) < SummaryLimit THEN Len(list) ELSE SummaryLimit)

\* f"- {alert_type}: {item_name} ({patient_name}) - {message}"; a fixed text
\* stands for the patient name and for the message, which the alerts of the
\* model do not carry
ItemLine(alert) ==
    <<"- ", alert.alert_type, ": ">> \o alert.item_name
        \o <<" (">> \o OtherColumn \o <<") - ">> \o OtherColumn

\* The content of the message; now is the time the header line is stamped
\* with.
SummaryContent(alerts, now) ==
    IF alerts = <<>>
    THEN << <<"Good news! There are currently no active inventory alerts.">> >>
    ELSE LET critical_alerts == SelectSeq(alerts, IsCritical)
             warning_alerts  == SelectSeq(alerts, IsWarning)
             critical_items  == FirstItems(critical_alerts)
             warning_items   == FirstItems(warning_alerts)
         IN  << <<"Inventory Alert Summary - ">> \o FormatInt(now),
                <<"Total Active Alerts: ">> \o FormatInt(Len(alerts)),
                <<"- Critical: ">> \o FormatInt(Len(critical_alerts)),
                <<"- Warnings: ">> \o FormatInt(Len(warning_alerts)),
                <<"Critical Alerts:">> >>
             \o [i \in 1..Len(critical_items) |-> ItemLine(critical_items[i])]
             \o (IF Len(critical_alerts) > SummaryLimit
                 THEN << <<"... and ">> \o FormatInt(Len(critical_alerts) - SummaryLimit)
                             \o <<" more critical alerts">> >>
                 ELSE <<>>)
             \o << <<"Warning Alerts:">> >>
             \o [i \in 1..Len(warning_items) |-> ItemLine(warning_items[i])]
             \o (IF Len(warning_alerts) > SummaryLimit
                 THEN << <<"... and ">> \o FormatInt(Len(warning_alerts) - SummaryLimit)
                             \o <<" more warnings">> >>
                 ELSE <<>>)
             \o << <<"Please review the inventory system for detailed information.">> >>

\* The dispatcher, send(recipient, subject, body) -> success | failure: the
\* call it received and what it answered.
SendResults == { "success", "failure" }

send_email(recipient, subject, body, result) ==
    [ recipient |-> recipient, subject |-> subject, body |-> body, result |-> result ]

\* send_alert_summary_email(alerts).  conn tells whether get_alert_settings
\* reached the store; results[i] is what the dispatcher answers to the i-th
\* call.  The function returns None on every path and shows st.error only in
\* its except clause, which no path below enters: last.ok is "no error was
\* shown".
send_alert_summary_email(alerts, conn, results) ==
    LET settings   == get_alert_settings(alert_settings, conn)
        recipients == Recipients(settings)
        subject    == SummarySubject(alerts)
        content    == SummaryContent(alerts, today)
    IN  /\ outbox' =
               IF ~NotificationsConfigured(settings) THEN <<>>
               ELSE [i \in 1..Len(recipients) |->
                        send_email(recipients[i], subject, content, results[i])]
        /\ last' = Called("send_alert_summary_email", TRUE, settings, alerts)
        /\ UNCHANGED <<today, clock, inventory, alert_settings>>

(***************************************************************************)
(* SpecRender: the summary of alert lists with up to SummaryLimit + MaxOver *)
(* alerts of a severity, sent to one recipient.                            *)
(***************************************************************************)
MaxOver == 2           \* alerts of one severity beyond SummaryLimit
MaxRecipients == 2     \* addresses in notification_recipients

Address(i) == <<"user">> \o FormatInt(i)

\* The severity of the p-th alert of a list with c Critical and w Warning
\* alerts.  Grouped: the Critical ones, then the Warning ones.  Mixed: one
\* Info alert, then Warning and Critical in turn while both are left, then
\* the rest.
SeverityAt(c, w, mixed, p) ==
    IF ~mixed
    THEN IF p <= c THEN "Critical" ELSE "Warning"
    ELSE IF p = 1 THEN "Info"
    ELSE LET q == p - 1
             m == IF c < w THEN c ELSE w
         IN  IF q <= 2 * m
             THEN IF q % 2 = 1 THEN "Warning" ELSE "Critical"
             ELSE IF c > w THEN "Critical" ELSE "Warning"

\* an alert as get_current_alerts returns it, named after its position
SummaryAlert(p, severity) ==
    [ id         |-> <<"alert", "_">> \o FormatInt(p),
      alert_type |-> IF severity = "Critical" THEN "Expired"
                     ELSE IF severity = "Warning" THEN "Expiring Soon" ELSE "Low Stock",
      severity   |-> severity,
      item_name  |-> <<"Item">> \o FormatInt(p) ]

SummaryAlerts(c, w, mixed) ==
    [ p \in 1..(c + w + IF mixed THEN 1 ELSE 0) |->
        SummaryAlert(p, SeverityAt(c, w, mixed, p)) ]

SummaryCounts == {0, 1} \cup (SummaryLimit..(SummaryLimit + MaxOver))

SummaryInputs ==
    { SummaryAlerts(c, w, mixed) : c \in SummaryCounts, w \in SummaryCounts, mixed \in BOOLEAN }

RenderSettings ==
    [ get_default_alert_settings EXCEPT !.enable_email_notifications = TRUE,
                                        !.notification_recipients = Address(1) ]

\* what the dispatcher may answer to the calls of one summary
ResultInputs(conn) ==
    [ 1..Len(Recipients(get_alert_settings(alert_settings, conn))) -> SendResults ]

SaveRender ==
    /\ Len(alert_settings) < MaxSettingsRows
    /\ save_alert_settings(RenderSettings, TRUE)
    /\ UNCHANGED <<acknowledged, outbox, calls>>

SendRender ==
    /\ \E alerts \in SummaryInputs, results \in ResultInputs(TRUE) :
           send_alert_summary_email(alerts, TRUE, results)
    /\ UNCHANGED <<acknowledged, calls>>

NextRender ==
    \/ SaveRender
    \/ SendRender

SpecRender == Init /\ [][NextRender]_vars

(***************************************************************************)
(* SpecNotify: the summary under settings with notifications on or off and *)
(* up to MaxRecipients addresses, over a store that may be unreachable.    *)
(***************************************************************************)
RECURSIVE JoinAddresses(_)
\* "user1, user2, ..., userk"
JoinAddresses(k) ==
    IF k = 1 THEN Address(1)
    ELSE JoinAddresses(k - 1) \o <<",", " ">> \o Address(k)

\* nothing, k addresses, or one address and a comma after it
RecipientInputs ==
    { <<>>, Address(1) \o <<",">> } \cup { JoinAddresses(k) : k \in 1..MaxRecipients }

NotifySettingsInputs ==
    { [ get_default_alert_settings EXCEPT !.enable_email_notifications = e,
                                          !.notification_recipients = r ] :
        e \in BOOLEAN, r \in RecipientInputs }

NotifyAlertInputs ==
    { SummaryAlerts(0, 0, FALSE), SummaryAlerts(1, 0, FALSE), SummaryAlerts(1, 1, TRUE) }

SaveNotify ==
    /\ Len(alert_settings) < MaxSettingsRows
    /\ \E settings \in NotifySettingsInputs : save_alert_settings(settings, TRUE)
    /\ UNCHANGED <<acknowledged, outbox, calls>>

SendNotify ==
    /\ \E alerts \in NotifyAlertInputs, conn \in BOOLEAN :
           \E results \in ResultInputs(conn) :
               send_alert_summary_email(alerts, conn, results)
    /\ UNCHANGED <<acknowledged, calls>>

MidnightNotify ==
    /\ AdvanceDay
    /\ UNCHANGED <<acknowledged, outbox, calls>>

NextNotify ==
    \/ SaveNotify
    \/ SendNotify
    \/ MidnightNotify

SpecNotify == Init /\ [][NextNotify]_vars

(***************************************************************************)
(* Vocabulary of the notification properties.                              *)
(***************************************************************************)
\* the last call was send_alert_summary_email: outbox holds its sends
Summarized == last.op = "send_alert_summary_email"

Contains(text, part) ==
    \E i \in 0..(Len(text) - Len(part)) : SubSeq(text, i + 1, i + Len(part)) = part

HasLine(body, line) == \E i \in 1..Len(body) : body[i] = line

LineIndex(body, line) == CHOOSE i \in 1..Len(body) : body[i] = line

IsItemLine(line) == Head(line) = "- "
IsMarkerLine(line) == Head(line) = "... and "

CountOf(alerts, severity) ==
    Cardinality({ p \in 1..Len(alerts) : alerts[p].severity = severity })

\* the k-th alert of a severity, in the order of the list
KthOfSeverity(alerts, severity, k) ==
    alerts[ CHOOSE p \in 1..Len(alerts) :
                /\ alerts[p].severity = severity
                /\ Cardinality({ q \in 1..p : alerts[q].severity = severity }) = k ]

\* The lines of the body strictly between two lines list the first
\* SummaryLimit alerts of the severity in input order, and a marker with the
\* number of the others exactly when there are others.
Listed(body, alerts, severity, from, to, more) ==
    LET n       == CountOf(alerts, severity)
        shown   == IF n < SummaryLimit THEN n ELSE SummaryLimit
        section == SubSeq(body, from + 1, to - 1)
        items   == SelectSeq(section, IsItemLine)
        markers == SelectSeq(section, IsMarkerLine)
    IN  /\ Len(items) = shown
        /\ \A k \in 1..shown : items[k] = ItemLine(KthOfSeverity(alerts, severity, k))
        /\ markers = IF n > SummaryLimit
                     THEN << <<"... and ">> \o FormatInt(n - SummaryLimit) \o <<more>> >>
                     ELSE <<>>

\* the subject and the body state the total, the body the two counts
StatesCounts(message, alerts) ==
    /\ Contains(message.subject, FormatInt(Len(alerts)))
    /\ HasLine(message.body, <<"Total Active Alerts: ">> \o FormatInt(Len(alerts)))
    /\ HasLine(message.body, <<"- Critical: ">> \o FormatInt(CountOf(alerts, "Critical")))
    /\ HasLine(message.body, <<"- Warnings: ">> \o FormatInt(CountOf(alerts, "Warning")))

ListsItems(message, alerts) ==
    /\ HasLine(message.body, <<"Critical Alerts:">>)
    /\ HasLine(message.body, <<"Warning Alerts:">>)
    /\ Listed(message.body, alerts, "Critical",
              LineIndex(message.body, <<"Critical Alerts:">>),
              LineIndex(message.body, <<"Warning Alerts:">>), " more critical alerts")
    /\ Listed(message.body, alerts, "Warning",
              LineIndex(message.body, <<"Warning Alerts:">>),
              Len(message.body) + 1, " more warnings")

(***************************************************************************)
(* C23 as stated: for every alert list, the subject and the body of the    *)
(* summary state the total and the Critical and Warning counts, the body   *)
(* lists the first min(10, c) Critical and min(10, w) Warning alerts in    *)
(* input order and has the "... and N more" marker exactly beyond 10.      *)
(***************************************************************************)
C23_SummaryRendering ==
    Summarized =>
        \A i \in 1..Len(outbox) :
            /\ StatesCounts(outbox[i], last.alerts)
            /\ ListsItems(outbox[i], last.alerts)

(***************************************************************************)
(* C23 amended: the statement holds for every non-empty alert list; for    *)
(* the empty list the subject states the total 0 and the body is the one   *)
(* line that says there is no active alert, without counts.                *)
(***************************************************************************)
C23_SummaryRenderingNonEmpty ==
    Summarized =>
        \A i \in 1..Len(outbox) :
            IF last.alerts # <<>>
            THEN /\ StatesCounts(outbox[i], last.alerts)
                 /\ ListsItems(outbox[i], last.alerts)
            ELSE /\ Contains(outbox[i].subject, FormatInt(0))
                 /\ Len(outbox[i].body) = 1
                 /\ ~IsItemLine(outbox[i].body[1])
                 /\ ~IsMarkerLine(outbox[i].body[1])

\* a summary of a mixed list with more than SummaryLimit alerts of each
\* severity has been sent
C23_Witness ==
    /\ Summarized
    /\ Len(outbox) = 1
    /\ last.alerts # <<>>
    /\ last.alerts[1].severity = "Info"
    /\ CountOf(last.alerts, "Critical") > SummaryLimit + 1
    /\ CountOf(last.alerts, "Warning") = SummaryLimit + 1

(***************************************************************************)
(* C24: when the send to a recipient fails, a send is still made for every *)
(* recipient after it, and send_alert_summary_email reports the failures.  *)
(***************************************************************************)
\* what the caller and the user learn of failed sends: an error shown
FailuresReported(call) == ~call.ok

C24_FailedSendReported ==
    ( Summarized /\ \E i \in 1..Len(outbox) : outbox[i].result = "failure" )
    => /\ Len(outbox) = Len(Recipients(last.settings))
       /\ FailuresReported(last)

(***************************************************************************)
(* C30: send_alert_summary_email calls the dispatcher only when the        *)
(* settings it reads have enable_email_notifications true and a non-empty  *)
(* notification_recipients; then it makes one call per comma-separated     *)
(* piece of notification_recipients, in order, to the piece without its    *)
(* blanks, all with the same subject and body; otherwise it makes no call. *)
(***************************************************************************)
\* the i-th comma-separated piece of s without blanks
NthRecipient(s, i) ==
    LET pos == { p \in 1..Len(s) :
                   /\ s[p] \notin {",", " "}
                   /\ Cardinality({ q \in 1..p : s[q] = "," }) = i - 1 }
        ordered == SortedIds(pos)
    IN  [ k \in 1..Len(ordered) |-> s[ordered[k]] ]

C30_NotificationGating ==
    Summarized =>
        LET s == last.settings.notification_recipients
        IN  IF last.settings.enable_email_notifications /\ Len(s) > 0
            THEN /\ Len(outbox) = Cardinality({ q \in 1..Len(s) : s[q] = "," }) + 1
                 /\ \A i \in 1..Len(outbox) :
                        /\ outbox[i].recipient = NthRecipient(s, i)
                        /\ outbox[i].subject = outbox[1].subject
                        /\ outbox[i].body = outbox[1].body
            ELSE outbox = <<>>

\* a summary has been sent to two different addresses, the first send
\* answered with a failure
C30_Witness ==
    /\ Summarized
    /\ Len(outbox) = 2
    /\ outbox[1].recipient = Address(1)
    /\ outbox[2].recipient = Address(2)
    /\ outbox[1].result = "failure"

(***************************************************************************)
(* SpecConcurrent: two acknowledge_alerts calls at a time, each on its own *)
(* connection (get_db_connection opens one per call), the statements of    *)
(* the two interleaved.  The store is PostgreSQL at its default isolation  *)
(* level, READ COMMITTED: an UPDATE locks the row it writes until its      *)
(* transaction ends; an UPDATE of a row another open transaction has       *)
(* written waits for that transaction and then works on the row as         *)
(* committed; when each of the two waits for the other, the store aborts   *)
(* one of them, whose execute raises.                                      *)
(***************************************************************************)
ConcurrentDataInputs ==
    [ drug_item_name : Drugs, location : Locations, expiration_date : { Some(-1) } ]

\* "expired_<n>" of every record and "stock_1", which writes a second key
\* to record 1
ConcurrentIdInputs ==
    { ExpiryAlertId(ExpiredKey, n) : n \in 1..MaxRecords }
        \cup { <<"stock", "_">> \o FormatInt(1) }

\* the lists of up to MaxBatch different ids
ConcurrentListInputs ==
    UNION { { ids \in [1..k -> ConcurrentIdInputs] :
                \A i \in 1..k, j \in 1..k : ids[i] = ids[j] => i = j } : k \in 1..MaxBatch }

\* The lists of the two calls.  Which of the two is call 1 makes no
\* difference, the steps of the two being interleaved in every way.
ConcurrentPairs ==
    { {ids1, ids2} : ids1 \in ConcurrentListInputs, ids2 \in ConcurrentListInputs }

\* a call that has opened its connection: position is the index of the id
\* its loop is at, rows the rows its transaction has written
NewCall(alert_ids) ==
    [ alert_ids |-> alert_ids, position |-> 1, rows |-> <<>>, status |-> "running" ]

InFlight(call) == call.status = "running"

\* both calls of the round have returned
Finished == calls # <<>> /\ \A t \in DOMAIN calls : ~InFlight(calls[t])

\* the table as the transaction of a call sees it: its own writes over what
\* is committed
View(call) ==
    [ id \in DOMAIN inventory |->
        IF id \in DOMAIN call.rows THEN call.rows[id] ELSE inventory[id] ]

\* the call is at an UPDATE of a row that the other call has written and not
\* committed
Blocked(t) ==
    LET call  == calls[t]
        other == calls[3 - t]
    IN  /\ InFlight(call)
        /\ call.position <= Len(call.alert_ids)
        /\ IsWellFormed(call.alert_ids[call.position])
        /\ InFlight(other)
        /\ ParseInt(SplitFirst(call.alert_ids[call.position])[2]) \in DOMAIN other.rows

\* The two calls start, on a table that has all its rows: an UPDATE whose
\* id matches no row changes nothing, so a call on a table without row n is
\* the call without the ids of row n.
BeginCalls ==
    /\ calls = <<>> \/ Finished
    /\ Len(inventory) = MaxRecords
    /\ clock <= MaxClock
    /\ \E pair \in ConcurrentPairs :
           LET ids1 == CHOOSE ids \in pair : TRUE
               ids2 == IF pair = {ids1} THEN ids1 ELSE CHOOSE ids \in pair \ {ids1} : TRUE
           IN  calls' = <<NewCall(ids1), NewCall(ids2)>>
    /\ acknowledged' = [ before |-> inventory ]
    /\ UNCHANGED <<today, clock, inventory, alert_settings, last, outbox>>

\* one pass of the loop body in call t
ExecuteUpdate(t) ==
    /\ calls # <<>>
    /\ InFlight(calls[t])
    /\ calls[t].position <= Len(calls[t].alert_ids)
    /\ ~Blocked(t)
    /\ LET call    == calls[t]
           after   == AcknowledgeOne(View(call), call.alert_ids[call.position], clock)
           written == { id \in DOMAIN inventory : after[id] # View(call)[id] }
       IN  /\ calls' = [ calls EXCEPT ![t] =
                           [ call EXCEPT !.position = @ + 1,
                                         !.rows = [ id \in (DOMAIN call.rows) \cup written |->
                                                      after[id] ] ] ]
           /\ clock' = IF written # {} THEN clock + 1 ELSE clock
    /\ UNCHANGED <<today, inventory, alert_settings, last, acknowledged, outbox>>

\* conn.commit() and return True
CommitCall(t) ==
    /\ calls # <<>>
    /\ InFlight(calls[t])
    /\ calls[t].position = Len(calls[t].alert_ids) + 1
    /\ inventory' = View(calls[t])
    /\ calls' = [ calls EXCEPT ![t] = [ @ EXCEPT !.rows = <<>>, !.status = "committed" ] ]
    /\ last' = NoResult("acknowledge_alerts", TRUE)
    /\ UNCHANGED <<today, clock, alert_settings, acknowledged, outbox>>

\* each call waits for the other: the execute of call t raises, its except
\* clause rolls back and returns False
DeadlockAbort(t) ==
    /\ calls # <<>>
    /\ Blocked(1)
    /\ Blocked(2)
    /\ inventory' = Rollback(inventory, View(calls[t]))
    /\ calls' = [ calls EXCEPT ![t] = [ @ EXCEPT !.rows = <<>>, !.status = "aborted" ] ]
    /\ last' = NoResult("acknowledge_alerts", FALSE)
    /\ UNCHANGED <<today, clock, alert_settings, acknowledged, outbox>>

InsertConcurrent ==
    /\ calls = <<>>
    /\ Len(inventory) < MaxRecords
    /\ \E data \in ConcurrentDataInputs : insert_inventory_record(data)
    /\ UNCHANGED <<acknowledged, outbox, calls>>

NextConcurrent ==
    \/ InsertConcurrent
    \/ BeginCalls
    \/ \E t \in 1..2 : ExecuteUpdate(t)
    \/ \E t \in 1..2 : CommitCall(t)
    \/ \E t \in 1..2 : DeadlockAbort(t)

SpecConcurrent == Init /\ [][NextConcurrent]_vars

(***************************************************************************)
(* C25: after two concurrent acknowledge_alerts calls have both returned,  *)
(* every record has every acknowledgment key it had when they began and no *)
(* key but those and the keys the two calls write to it, its other fields  *)
(* are as before, and a call repeated alone writes each of its keys that   *)
(* is missing.                                                             *)
(***************************************************************************)
\* the keys the UPDATEs of a list write to record n
KeysWritten(alert_ids, n) ==
    { SplitFirst(alert_ids[i])[1] \o <<"_", "acknowledged">> :
        i \in { j \in 1..Len(alert_ids) :
                  /\ IsWellFormed(alert_ids[j])
                  /\ ParseInt(SplitFirst(alert_ids[j])[2]) = n } }

====
